---- MODULE Spec2Model ----
(***************************************************************************)
(* Agent lifecycle bridge of the AI-Trader backend.                        *)
(*                                                                         *)
(* The model covers the two process supervisors of the repository          *)
(*   AITraderBridge   (backend/app/services/ai_trader_bridge.py), and      *)
(*   AITraderService  (backend/app/services/ai_trader_service.py),         *)
(* the monitor loop of the bridge and the bridge-backed API start handler  *)
(* (backend/app/api/agents.py).                                            *)
(*                                                                         *)
(* Storage is the collaborator the bridge is typed against: rows of        *)
(* AgentConfig and Portfolio, read by primary key, written by              *)
(* "assign, then commit"; a commit either persists the assignment or       *)
(* raises and persists nothing.  An AgentConfig row carries the            *)
(* portfolio_id the bridge reads (ai_trader_bridge.py:194).                *)
(*                                                                         *)
(* A handler is one action: the steps between its awaits are taken         *)
(* together, and what the environment decides during the call (spawn       *)
(* succeeds or not, commit succeeds or not, the process exits within the   *)
(* grace period or not) is an input of the action.                         *)
(*                                                                         *)
(* The two supervisors implement the same contract over the same rows and  *)
(* nothing in the repository drives both: the router imports the bridge    *)
(* alone (agents.py:16).  A behaviour drives one of them, chosen in Init.  *)
(*                                                                         *)
(* Spec is the lifecycle: start, stop, status, and the monitor iteration   *)
(* taken as one step.  MonitorSpec follows the background task of          *)
(* lifespan (backend/main.py) from await to await, with its cancellation.  *)
(* PortfolioSyncSpec and TradeSyncSpec are the two reconcilers,            *)
(* sync_portfolio_data and sync_trades_from_ai_trader, over the files the  *)
(* trading process appends to.  ConfigSpec is the two configuration        *)
(* materializers over the rows they read.  RaceSpec is start_agent and     *)
(* stop_agent of the bridge from await to await, several calls in flight   *)
(* beside the monitor task.  ApiSpec is the bridge-backed router by        *)
(* requesting user; RequestSpec is create and update of the user-keyed     *)
(* router, whose AgentConfig table is the sequence of its rows.            *)
(***************************************************************************)
EXTENDS Integers, Sequences, FiniteSets, TLC

\* ----------------------------------------------------------------- bounds
MaxAgents == 2          \* AgentConfig ids 1..MaxAgents
MaxPortfolios == 1      \* Portfolio ids 1..MaxPortfolios
MaxProcs == 2           \* subprocesses ever spawned in one behaviour
MaxTime == 1            \* the wall clock runs 0..MaxTime
MaxEntries == 2         \* trade entries in the trade log files
MaxRows == 2            \* Trade rows in storage before any reconciliation
MaxLines == 3           \* lines of a position file
MaxQuantity == 1        \* quantities of a snapshot run -MaxQuantity..MaxQuantity
MaxCalls == 2           \* start_agent and stop_agent calls made while others are in flight
MaxConfigs == 4         \* AgentConfig rows the configuration requests create

AgentIds == 1..MaxAgents
PortfolioIds == 1..MaxPortfolios
\* user u owns portfolio u; the last user owns no portfolio
Users == 1..(MaxPortfolios + 1)
Times == 0..MaxTime

NoRow == [exists |-> FALSE]
\* Python's None, of a timestamp column and of a process handle
None == -1
NoProcess == 0

VARIABLES
    agent_configs,   \* storage: AgentConfig rows, by id
    portfolios,      \* storage: Portfolio rows, by id
    active_agents,   \* AITraderBridge.active_agents, in insertion order
    running_agents,  \* AITraderService.running_agents, in insertion order
    procs,           \* every subprocess spawned so far; its index is its pid
    supervisor,      \* the implementation this deployment drives
    now,             \* datetime.now()
    last,            \* the call that completed last, and what it returned
    monitor,         \* the background task of lifespan, and where it is suspended
    trades,          \* storage: Trade rows, in insertion order
    data_files,      \* the trade entries of the "*trades*.json" files, in glob order
    position_file,   \* position.jsonl of the portfolio: its lines, or absent
    ledger,          \* storage: the financial columns of the Portfolio row
    config_file,     \* the agent configuration document written last, and its rows
    calls            \* the start_agent and stop_agent calls in flight, by task

vars == <<agent_configs, portfolios, active_agents, running_agents, procs, supervisor,
          now, last, monitor, trades, data_files, position_file, ledger,
          config_file, calls>>

\* what the lifecycle calls leave alone
sync_vars == <<monitor, trades, data_files, position_file, ledger, config_file, calls>>

\* ------------------------------------------------------------ dictionaries
\* A Python dict is a sequence of entries in insertion order, keys unique.
Keys(d) == {d[i].id : i \in 1..Len(d)}

Has(d, k) == k \in Keys(d)

Get(d, k) == d[CHOOSE i \in 1..Len(d) : d[i].id = k]

\* del d[k]
Del(d, k) == SelectSeq(d, LAMBDA e : e.id # k)

\* d[k] = e: a present key keeps its place, a new key goes last
Put(d, e) ==
    IF Has(d, e.id)
    THEN [i \in 1..Len(d) |-> IF d[i].id = e.id THEN e ELSE d[i]]
    ELSE Append(d, e)

\* ------------------------------------------------------------------ rows
AgentConfigRow(p, active) ==
    [exists |-> TRUE, portfolio_id |-> p, is_active |-> active,
     is_running |-> FALSE, last_started_at |-> None,
     last_stopped_at |-> None, last_run_at |-> None]

PortfolioRow(u) == [exists |-> TRUE, user_id |-> u]

\* --------------------------------------------------------------- processes
\* reaped: the handle's returncode is set. A subprocess.Popen sets it only
\* in poll(), wait() and send_signal(); nothing sets it behind the caller.
Proc(a, owner) == [agent |-> a, owner |-> owner, state |-> "running", reaped |-> FALSE]

Exited(pid) == procs[pid].state = "exited"

Exit(ps, pid) == [ps EXCEPT ![pid].state = "exited"]

\* Popen.wait() has returned, or terminate() polled a process that had ended
Reap(ps, pid) == [ps EXCEPT ![pid].reaped = TRUE]

\* ------------------------------------------------------------ call results
\* What a call leaves behind: what it returned, the exception it caught
\* ("" when none), and the state it wrote. signals: the calls it made on
\* the process handle, in order. tracked: the id was in the live map when
\* the call began. spawned: the pid it spawned, NoProcess when none.
Outcome(ok, error, live, cfgs, ps, spawned, tracked, signals) ==
    [ok |-> ok, error |-> error, live |-> live, agent_configs |-> cfgs, procs |-> ps,
     spawned |-> spawned, tracked |-> tracked, signals |-> signals]

Result(op, a, ok) ==
    [op |-> op, agent |-> a, ok |-> ok, error |-> "", tracked |-> FALSE,
     spawned |-> NoProcess, signals |-> <<>>, exited |-> FALSE, removed |-> 0,
     status |-> [running |-> FALSE], propagated |-> FALSE, user |-> 0]

ExceptException_ValueErrorOnly(error) == error = "NotFound"

\* "except Exception as e" around the body of start_agent and of stop_agent:
\* TRUE when the handler takes the error. Every failure of the body is an
\* Exception; CancelledError is a BaseException and passes through.
ExceptException(error) == error # "CancelledError"

\* await db.commit(): the assignments are persisted, or it raises
Commit(assigned, persisted, commit_ok) == IF commit_ok THEN assigned ELSE persisted

\* ---------------------------------------------------------- AITraderBridge
PortfolioNotFound_Unchecked(cfg) == FALSE

\* _create_agent_config raises ValueError when the linked Portfolio is gone
PortfolioNotFound(cfg) == ~portfolios[cfg.portfolio_id].exists

\* _start_trading_process: the handle of the new process, or None when
\* create_subprocess_exec raised
StartTradingProcess(ps, a, spawn_ok) ==
    IF spawn_ok
    THEN [process |-> Len(ps) + 1, procs |-> Append(ps, Proc(a, "bridge"))]
    ELSE [process |-> NoProcess, procs |-> ps]

\* the entry start_agent records for a spawned process
LiveEntry(a, pid) == [id |-> a, process |-> pid, started_at |-> now]

\* "if agent_config_id in self.active_agents" of start_agent
AlreadyRunning(a) == Has(active_agents, a)

AITraderBridge_start_agent_FlagFirst(a, spawn_ok, commit_ok) ==
    LET cfg == agent_configs[a]
        same(ok, error) == Outcome(ok, error, active_agents, agent_configs, procs,
                                   NoProcess, Has(active_agents, a), <<>>)
        started == StartTradingProcess(procs, a, spawn_ok)
        running == [agent_configs EXCEPT ![a].is_running = TRUE,
                                         ![a].last_started_at = now]
    IN  IF ~cfg.exists THEN same(FALSE, "NotFound")
        ELSE IF AlreadyRunning(a) THEN same(TRUE, "")
        ELSE IF PortfolioNotFound(cfg) THEN same(FALSE, "NotFound")
        ELSE IF started.process = NoProcess
        THEN Outcome(FALSE, "SpawnFailure", active_agents,
                     Commit(running, agent_configs, commit_ok), procs,
                     NoProcess, FALSE, <<>>)
        ELSE Outcome(commit_ok, IF commit_ok THEN "" ELSE "StorageFailure",
                     Put(active_agents, LiveEntry(a, started.process)),
                     Commit(running, agent_configs, commit_ok),
                     started.procs, started.process, FALSE, <<>>)

AITraderBridge_start_agent(a, spawn_ok, commit_ok) ==
    LET cfg == agent_configs[a]
        same(ok, error) == Outcome(ok, error, active_agents, agent_configs, procs,
                                   NoProcess, Has(active_agents, a), <<>>)
        started == StartTradingProcess(procs, a, spawn_ok)
    IN  IF ~cfg.exists THEN same(FALSE, "NotFound")
        ELSE IF AlreadyRunning(a) THEN same(TRUE, "")
        ELSE IF PortfolioNotFound(cfg) THEN same(FALSE, "NotFound")
        ELSE IF started.process = NoProcess THEN same(FALSE, "SpawnFailure")
        ELSE Outcome(commit_ok, IF commit_ok THEN "" ELSE "StorageFailure",
                     Put(active_agents, LiveEntry(a, started.process)),
                     Commit([agent_configs EXCEPT ![a].is_running = TRUE,
                                                  ![a].last_started_at = now],
                            agent_configs, commit_ok),
                     started.procs, started.process, FALSE, <<>>)

\* "if agent_config_id not in self.active_agents" of stop_agent
NotRunning(a) == ~Has(active_agents, a)

\* process.terminate(); wait_for(process.wait(), 10); on timeout kill(); wait():
\* the calls made on the handle, in order, and the processes afterwards.
\* graceful: the process ends within the 10 s of the first wait.
TerminateWaitKill(ps, pid, graceful) ==
    IF ps[pid].state = "exited" \/ graceful
    THEN [signals |-> <<"terminate">>, procs |-> Exit(ps, pid)]
    ELSE [signals |-> <<"terminate", "kill">>, procs |-> Exit(ps, pid)]

\* lookup_raises: terminate() on a handle whose process has exited and whose
\* transport is closed raises ProcessLookupError; with the transport still
\* open it returns. Both happen, the caller cannot tell which.
AITraderBridge_stop_agent_Strict(a, lookup_raises, graceful, commit_ok) ==
    IF NotRunning(a)
    THEN Outcome(FALSE, "NotRunning", active_agents, agent_configs, procs,
                 NoProcess, FALSE, <<>>)
    ELSE
    LET pid == Get(active_agents, a).process
        twk == TerminateWaitKill(procs, pid, graceful)
        cfg == agent_configs[a]
    IN  IF Exited(pid) /\ lookup_raises
        THEN Outcome(FALSE, "ProcessLookupError", active_agents, agent_configs, procs,
                     NoProcess, TRUE, <<>>)
        ELSE Outcome(~cfg.exists \/ commit_ok,
                     IF cfg.exists /\ ~commit_ok THEN "StorageFailure" ELSE "",
                     Del(active_agents, a),
                     IF cfg.exists
                     THEN Commit([agent_configs EXCEPT ![a].is_running = FALSE,
                                                       ![a].last_stopped_at = now],
                                 agent_configs, commit_ok)
                     ELSE agent_configs,
                     twk.procs, NoProcess, TRUE, twk.signals)

AITraderBridge_stop_agent(a, lookup_raises, graceful, commit_ok) ==
    IF NotRunning(a)
    THEN Outcome(TRUE, "", active_agents, agent_configs, procs, NoProcess, FALSE, <<>>)
    ELSE
    LET pid == Get(active_agents, a).process
        twk == TerminateWaitKill(procs, pid, graceful)
        cfg == agent_configs[a]
    IN  IF Exited(pid) /\ lookup_raises
        THEN Outcome(FALSE, "ProcessLookupError", active_agents, agent_configs, procs,
                     NoProcess, TRUE, <<>>)
        ELSE Outcome(~cfg.exists \/ commit_ok,
                     IF cfg.exists /\ ~commit_ok THEN "StorageFailure" ELSE "",
                     Del(active_agents, a),
                     IF cfg.exists
                     THEN Commit([agent_configs EXCEPT ![a].is_running = FALSE,
                                                       ![a].last_stopped_at = now],
                                 agent_configs, commit_ok)
                     ELSE agent_configs,
                     twk.procs, NoProcess, TRUE, twk.signals)

AITraderBridge_get_agent_status_Now(a) ==
    IF ~Has(active_agents, a)
    THEN [running |-> FALSE, status |-> "stopped"]
    ELSE LET agent_info == Get(active_agents, a)
         IN  [running |-> TRUE,
              status |-> IF Exited(agent_info.process) THEN "crashed" ELSE "active",
              pid |-> agent_info.process,
              started_at |-> now,
              uptime_seconds |-> 0]

AITraderBridge_get_agent_status(a) ==
    IF ~Has(active_agents, a)
    THEN [running |-> FALSE, status |-> "stopped"]
    ELSE LET agent_info == Get(active_agents, a)
         IN  [running |-> TRUE,
              status |-> IF Exited(agent_info.process) THEN "crashed" ELSE "active",
              pid |-> agent_info.process,
              started_at |-> agent_info.started_at,
              uptime_seconds |-> now - agent_info.started_at]

\* The liveness sweep of one monitor_agents iteration over the snapshot
\* list(self.active_agents.items()), from entry i on. F: the agents whose
\* commit raises. A raise leaves the rest of the snapshot unvisited.
RECURSIVE Sweep_FirstOnly(_, _, _, _, _)
Sweep_FirstOnly(snapshot, i, live, cfgs, F) ==
    IF i > Len(snapshot) THEN [raised |-> FALSE, live |-> live, agent_configs |-> cfgs]
    ELSE LET agent_id == snapshot[i].id
         IN  IF ~Exited(snapshot[i].process)
             THEN Sweep_FirstOnly(snapshot, i + 1, live, cfgs, F)
             ELSE IF cfgs[agent_id].exists /\ agent_id \in F
             THEN [raised |-> TRUE, live |-> live, agent_configs |-> cfgs]
             ELSE [raised |-> FALSE, live |-> Del(live, agent_id),
                   agent_configs |->
                       IF cfgs[agent_id].exists
                       THEN [cfgs EXCEPT ![agent_id].is_running = FALSE]
                       ELSE cfgs]

RECURSIVE Sweep(_, _, _, _, _)
Sweep(snapshot, i, live, cfgs, F) ==
    IF i > Len(snapshot) THEN [raised |-> FALSE, live |-> live, agent_configs |-> cfgs]
    ELSE LET agent_id == snapshot[i].id
         IN  IF ~Exited(snapshot[i].process)
             THEN Sweep(snapshot, i + 1, live, cfgs, F)
             ELSE IF cfgs[agent_id].exists /\ agent_id \in F
             THEN [raised |-> TRUE, live |-> live, agent_configs |-> cfgs]
             ELSE Sweep(snapshot, i + 1, Del(live, agent_id),
                        IF cfgs[agent_id].exists
                        THEN [cfgs EXCEPT ![agent_id].is_running = FALSE]
                        ELSE cfgs,
                        F)

\* --------------------------------------------------------- AITraderService
\* _start_ai_trader_process: subprocess.Popen returns the handle, or raises
StartAiTraderProcess(ps, a, spawn_ok) ==
    IF spawn_ok
    THEN [process |-> Len(ps) + 1, procs |-> Append(ps, Proc(a, "service"))]
    ELSE [process |-> NoProcess, procs |-> ps]

\* "if process and process.returncode is None": a handle Popen has just
\* returned has returncode None, nothing has polled it
AITraderService_start_agent(a, spawn_ok, commit_ok) ==
    LET started == StartAiTraderProcess(procs, a, spawn_ok)
    IN  IF started.process = NoProcess
        THEN Outcome(FALSE, "SpawnFailure", running_agents, agent_configs, procs,
                     NoProcess, Has(running_agents, a), <<>>)
        ELSE Outcome(commit_ok, IF commit_ok THEN "" ELSE "StorageFailure",
                     Put(running_agents, [id |-> a, process |-> started.process]),
                     Commit([agent_configs EXCEPT ![a].is_running = TRUE,
                                                  ![a].last_run_at = now],
                            agent_configs, commit_ok),
                     started.procs, started.process, Has(running_agents, a), <<>>)

\* process.terminate(); process.wait(timeout=10); on TimeoutExpired kill().
\* Nothing waits after the kill: died says whether the process is gone by
\* the time stop_agent returns.
TerminateWaitKillNoWait(ps, pid, graceful, died) ==
    IF ps[pid].state = "exited" \/ graceful
    THEN [signals |-> <<"terminate">>, procs |-> Reap(Exit(ps, pid), pid)]
    ELSE [signals |-> <<"terminate", "kill">>,
          procs |-> IF died THEN Exit(ps, pid) ELSE ps]

\* cleanup_ok: _cleanup_temp_config unlinks the config file, or raises
AITraderService_stop_agent(a, graceful, died, commit_ok, cleanup_ok) ==
    LET tracked == Has(running_agents, a)
        twk == IF tracked
               THEN TerminateWaitKillNoWait(procs, Get(running_agents, a).process,
                                            graceful, died)
               ELSE [signals |-> <<>>, procs |-> procs]
        cfg == agent_configs[a]
        committed == ~cfg.exists \/ commit_ok
    IN  Outcome(committed /\ cleanup_ok,
                IF ~committed THEN "StorageFailure"
                ELSE IF ~cleanup_ok THEN "CleanupFailure" ELSE "",
                IF tracked THEN Del(running_agents, a) ELSE running_agents,
                IF cfg.exists
                THEN Commit([agent_configs EXCEPT ![a].is_running = FALSE],
                            agent_configs, commit_ok)
                ELSE agent_configs,
                twk.procs, NoProcess, tracked, twk.signals)

AITraderService_get_agent_status_Polling(a) ==
    IF ~Has(running_agents, a)
    THEN [is_running |-> FALSE, live |-> running_agents]
    ELSE IF procs[Get(running_agents, a).process].state = "exited"
    THEN [is_running |-> FALSE, live |-> Del(running_agents, a)]
    ELSE [is_running |-> TRUE, live |-> running_agents]

\* get_agent_status of the service: "if process.returncode is not None" it
\* deletes the entry and answers not running
AITraderService_get_agent_status(a) ==
    IF ~Has(running_agents, a)
    THEN [is_running |-> FALSE, live |-> running_agents]
    ELSE IF procs[Get(running_agents, a).process].reaped
    THEN [is_running |-> FALSE, live |-> Del(running_agents, a)]
    ELSE [is_running |-> TRUE, live |-> running_agents]

\* ------------------------------------------------------------ API handlers
\* select(AgentConfig).join(Portfolio).where(AgentConfig.id == agent_id,
\*                                           Portfolio.user_id == current_user.id)
OwnedAgent(u, a) ==
    /\ agent_configs[a].exists
    /\ portfolios[agent_configs[a].portfolio_id].exists
    /\ portfolios[agent_configs[a].portfolio_id].user_id = u

\* POST /{agent_id}/start of the bridge-backed router
api_start_agent(u, a, spawn_ok, commit_ok) ==
    IF ~OwnedAgent(u, a)
    THEN Outcome(FALSE, "NotFound", active_agents, agent_configs, procs, NoProcess,
                 Has(active_agents, a), <<>>)
    ELSE IF AITraderBridge_get_agent_status(a).running
    THEN Outcome(TRUE, "", active_agents, agent_configs, procs, NoProcess, TRUE, <<>>)
    ELSE AITraderBridge_start_agent(a, spawn_ok, commit_ok)

\* POST /{agent_id}/stop: the ownership select, then stop_agent of the bridge
api_stop_agent(u, a, lookup_raises, graceful, commit_ok) ==
    IF ~OwnedAgent(u, a)
    THEN Outcome(FALSE, "NotFound", active_agents, agent_configs, procs, NoProcess,
                 Has(active_agents, a), <<>>)
    ELSE AITraderBridge_stop_agent(a, lookup_raises, graceful, commit_ok)

\* DELETE /{agent_id}: stop_agent of the bridge first and whatever it
\* returns, then the ownership select, then db.delete and the commit
api_delete_agent_config(u, a, lookup_raises, graceful, stop_commit_ok, commit_ok) ==
    LET stopped == AITraderBridge_stop_agent(a, lookup_raises, graceful, stop_commit_ok)
    IN  IF ~OwnedAgent(u, a)
        THEN [stopped EXCEPT !.ok = FALSE, !.error = "NotFound"]
        ELSE [stopped EXCEPT
                !.ok = commit_ok,
                !.error = IF commit_ok THEN "" ELSE "StorageFailure",
                !.agent_configs = Commit([stopped.agent_configs EXCEPT ![a] = NoRow],
                                         stopped.agent_configs, commit_ok)]

\* ------------------------------------------------------------ trade logs
Symbols == {"AAPL", "MSFT"}

\* the "timestamp" strings of the trade entries
IsoTimes == {"2024-01-01T00:00:00", "2024-01-02T00:00:00"}

\* datetime.fromisoformat: the day of the month stands for the datetime
FromIsoFormat(text) ==
    CASE text = "2024-01-01T00:00:00" -> 1
      [] text = "2024-01-02T00:00:00" -> 2

\* the "portfolio_id" of the trade entries: the portfolios in storage and
\* one more
TradePortfolios == 1..(MaxPortfolios + 1)

TradeEntry(portfolio_id, symbol, timestamp) ==
    [portfolio_id |-> portfolio_id, symbol |-> symbol, timestamp |-> timestamp]

\* the column attributes of the Trade class, and its relationship
TradeAttributes ==
    {"id", "portfolio_id", "symbol", "trade_type", "quantity", "price", "total_value",
     "status", "execution_price", "fees", "ai_reasoning", "confidence_score",
     "market_conditions", "created_at", "executed_at", "broker_trade_id", "portfolio"}

TradeKwargs_TotalValue ==
    {"portfolio_id", "symbol", "trade_type", "quantity", "price", "total_value",
     "ai_reasoning", "confidence_score", "executed_at"}

\* the keyword arguments sync_trades_from_ai_trader passes to Trade(...)
TradeKwargs ==
    {"portfolio_id", "symbol", "trade_type", "quantity", "price", "total_amount",
     "ai_reasoning", "confidence_score", "executed_at"}

TradeRow(portfolio_id, symbol, executed_at, status) ==
    [portfolio_id |-> portfolio_id, symbol |-> symbol, executed_at |-> executed_at,
     status |-> status]

\* Trade(**kwargs): the declarative constructor raises TypeError for a
\* keyword that is no attribute of the class; status is not passed and
\* takes the column default
NewTrade(kwargs, trade_data) ==
    IF kwargs \subseteq TradeAttributes
    THEN [raised |-> "",
          row |-> TradeRow(trade_data.portfolio_id, trade_data.symbol,
                           FromIsoFormat(trade_data.timestamp), "pending")]
    ELSE [raised |-> "TypeError", row |-> TradeRow(0, "", 0, "pending")]

\* select(Trade).where(symbol == ..., executed_at == ...): the stored rows
\* that match. The session does not autoflush (database.py:29): rows added
\* and not yet committed are not seen.
ExistingTrade(rows, trade_data) ==
    {k \in 1..Len(rows) :
        /\ rows[k].symbol = trade_data.symbol
        /\ rows[k].executed_at = FromIsoFormat(trade_data.timestamp)}

\* the two for loops of sync_trades_from_ai_trader from entry i on: the
\* rows added to the session, or the exception that ended the loops
RECURSIVE ScanTradeLogs(_, _, _, _)
ScanTradeLogs(entries, i, rows, added) ==
    IF i > Len(entries) THEN [raised |-> "", added |-> added]
    ELSE LET existing_trade == ExistingTrade(rows, entries[i])
             trade == NewTrade(TradeKwargs, entries[i])
         IN  IF Cardinality(existing_trade) > 1
             THEN [raised |-> "MultipleResultsFound", added |-> added]
             ELSE IF existing_trade # {}
             THEN ScanTradeLogs(entries, i + 1, rows, added)
             ELSE IF trade.raised # ""
             THEN [raised |-> trade.raised, added |-> added]
             ELSE ScanTradeLogs(entries, i + 1, rows, Append(added, trade.row))

AITraderBridge_sync_trades_from_ai_trader_Clearing(commit_ok) ==
    LET scan == ScanTradeLogs(data_files, 1, trades, <<>>)
    IN  IF scan.raised # ""
        THEN [trades_synced |-> 0, error |-> scan.raised, trades |-> <<>>]
        ELSE IF ~commit_ok
        THEN [trades_synced |-> 0, error |-> "StorageFailure", trades |-> <<>>]
        ELSE [trades_synced |-> Len(scan.added), error |-> "",
              trades |-> scan.added]

\* sync_trades_from_ai_trader: what it returns, the exception it caught and
\* the Trade rows afterwards; one commit after the loops
AITraderBridge_sync_trades_from_ai_trader(commit_ok) ==
    LET scan == ScanTradeLogs(data_files, 1, trades, <<>>)
    IN  IF scan.raised # ""
        THEN [trades_synced |-> 0, error |-> scan.raised, trades |-> trades]
        ELSE IF ~commit_ok
        THEN [trades_synced |-> 0, error |-> "StorageFailure", trades |-> trades]
        ELSE [trades_synced |-> Len(scan.added), error |-> "",
              trades |-> trades \o scan.added]

\* ---------------------------------------------------------- position file
HoldingSymbols == {"CASH", "AAPL"}

Quantities == (-MaxQuantity)..MaxQuantity

\* a holdings mapping: symbol -> quantity, over any subset of the symbols
AllHoldings == UNION {[D -> Quantities] : D \in SUBSET HoldingSymbols}

NoHoldings == [symbol \in {} |-> 0]

\* the lines of position.jsonl: a snapshot object, a blank line, or text
\* json.loads rejects
Snapshot(positions) == [kind |-> "snapshot", positions |-> positions]

BlankLine == [kind |-> "blank", positions |-> NoHoldings]

MalformedLine == [kind |-> "malformed", positions |-> NoHoldings]

Lines == {Snapshot(h) : h \in AllHoldings} \cup {BlankLine, MalformedLine}

Absent == [exists |-> FALSE, lines |-> <<>>]

PositionFile(lines) == [exists |-> TRUE, lines |-> lines]

\* Portfolio.initial_cash, its column default
InitialCash == 10000

\* the placeholder price of _calculate_portfolio_value
Price == 150

\* the financial columns of a Portfolio as create_portfolio stores them
NewPortfolio ==
    [holdings |-> NoHoldings, initial_cash |-> InitialCash,
     current_cash |-> InitialCash, total_value |-> InitialCash,
     total_return |-> 0, updated_at |-> None]

\* holdings.get("CASH", 0.0)
GetCash(holdings) == IF "CASH" \in DOMAIN holdings THEN holdings["CASH"] ELSE 0

\* _parse_position_file from line i on: blank lines are skipped; the first
\* line json.loads rejects ends the read, and what was parsed is returned
RECURSIVE ParsePositionFile(_, _, _)
ParsePositionFile(lines, i, positions) ==
    IF i > Len(lines) THEN positions
    ELSE IF lines[i].kind = "blank" THEN ParsePositionFile(lines, i + 1, positions)
    ELSE IF lines[i].kind = "malformed" THEN positions
    ELSE ParsePositionFile(lines, i + 1, Append(positions, lines[i]))

\* the for loop of _calculate_portfolio_value over the given symbols
RECURSIVE StockValue(_, _)
StockValue(holdings, symbols) ==
    IF symbols = {} THEN 0
    ELSE LET symbol == CHOOSE x \in symbols : TRUE
         IN  (IF symbol # "CASH" /\ holdings[symbol] > 0
              THEN holdings[symbol] * Price ELSE 0)
             + StockValue(holdings, symbols \ {symbol})

CalculatePortfolioValue(holdings) ==
    GetCash(holdings) + StockValue(holdings, DOMAIN holdings)

\* Portfolio.update_performance_metrics
UpdatePerformanceMetrics(row) ==
    IF row.initial_cash > 0
    THEN [row EXCEPT !.total_return = row.total_value - row.initial_cash]
    ELSE row

\* _sync_trades of the service: a placeholder that reports 0 and writes
\* nothing
AITraderService_sync_trades == [trades_synced |-> 0]

AITraderService_sync_portfolio_data_EmptyAsSuccess(commit_ok) ==
    LET positions == IF position_file.exists
                     THEN ParsePositionFile(position_file.lines, 1, <<>>) ELSE <<>>
        holdings == IF positions = <<>> THEN NoHoldings
                    ELSE positions[Len(positions)].positions
        updated ==
            UpdatePerformanceMetrics(
                [ledger EXCEPT !.holdings = holdings,
                               !.current_cash = GetCash(holdings),
                               !.total_value = CalculatePortfolioValue(holdings),
                               !.updated_at = now])
    IN  IF ~commit_ok
        THEN [status |-> "error", ledger |-> ledger, trades_synced |-> 0]
        ELSE [status |-> "success", ledger |-> updated,
              trades_synced |-> AITraderService_sync_trades.trades_synced]

\* sync_portfolio_data: the status it returns and the Portfolio row
\* afterwards
AITraderService_sync_portfolio_data(commit_ok) ==
    IF ~position_file.exists
    THEN [status |-> "no_data", ledger |-> ledger, trades_synced |-> 0]
    ELSE
    LET positions == ParsePositionFile(position_file.lines, 1, <<>>)
        holdings == positions[Len(positions)].positions
        updated ==
            UpdatePerformanceMetrics(
                [ledger EXCEPT !.holdings = holdings,
                               !.current_cash = GetCash(holdings),
                               !.total_value = CalculatePortfolioValue(holdings),
                               !.updated_at = now])
    IN  IF positions = <<>>
        THEN [status |-> "no_data", ledger |-> ledger, trades_synced |-> 0]
        ELSE IF ~commit_ok
        THEN [status |-> "error", ledger |-> ledger, trades_synced |-> 0]
        ELSE [status |-> "success", ledger |-> updated,
              trades_synced |-> AITraderService_sync_trades.trades_synced]

\* ------------------------------------------------- configuration documents
\* Fractions are kept in hundredths: 0.1 is 10.
DefaultMaxDailyRequests == 50

DefaultMaxPositionSize == 10

DefaultStopLossPct == 5

DefaultTakeProfitPct == 15

\* Python's "x or default": the default replaces every falsy x, 0 and None
\* alike
Or(x, default) == IF x = 0 \/ x = None THEN default ELSE x

\* portfolio.market or "us"
MarketOr(market, default) == IF market = "" THEN default ELSE market

Markets == {"us", "cn"}

\* the columns of an AgentConfig the materializers read
TradingParameters(position, stop_loss, take_profit, trades_per_day, market) ==
    [max_position_size |-> position, stop_loss_pct |-> stop_loss,
     take_profit_pct |-> take_profit, max_trades_per_day |-> trades_per_day,
     market |-> market]

\* the columns of a Portfolio the materializers read
PortfolioFunds(current_cash, market) ==
    [initial_cash |-> InitialCash, current_cash |-> current_cash, market |-> market]

\* no document written yet, from rows with the column defaults
NoConfigFile ==
    [agent_config |-> TradingParameters(DefaultMaxPositionSize, DefaultStopLossPct,
                                        DefaultTakeProfitPct, DefaultMaxDailyRequests,
                                        "us"),
     portfolio |-> PortfolioFunds(InitialCash, "us"),
     written_by |-> "",
     config |-> [key \in {} |-> 0]]

\* the document _create_agent_config dumps: "models"[0] max_daily_requests,
\* the "trading" section and "data_sources" market
AITraderBridge_create_agent_config(agent_config, portfolio) ==
    [max_daily_requests |-> Or(agent_config.max_trades_per_day, DefaultMaxDailyRequests),
     initial_cash |-> portfolio.current_cash,
     max_position_size |-> Or(agent_config.max_position_size, DefaultMaxPositionSize),
     stop_loss_pct |-> Or(agent_config.stop_loss_pct, DefaultStopLossPct),
     take_profit_pct |-> Or(agent_config.take_profit_pct, DefaultTakeProfitPct),
     market |-> MarketOr(portfolio.market, "us")]

\* the document _create_ai_trader_config returns: agent_type and market
\* from the AgentConfig, "agent_config" initial_cash from the Portfolio
AITraderService_create_ai_trader_config(agent_config, portfolio) ==
    [agent_type |-> IF agent_config.market = "us" THEN "BaseAgent" ELSE "BaseAgentAStock",
     market |-> agent_config.market,
     initial_cash |-> portfolio.initial_cash]

\* ------------------------------------------------------------ monitor task
\* The task lifespan creates. get_db: what monitor_task iterates with
\* "async for": the plain generator database.py defines, or the async
\* generator of AsyncSession the bridge is typed against. pc: the await the
\* task is suspended at. raised: the exception this iteration caught.
\* interrupted: the pc at which CancelledError was thrown into the task.
\* added: the Trade rows db.add() has put in the session and no commit has
\* flushed. trades_synced: the counter of sync_trades_from_ai_trader, and
\* once it has returned, what it returned.
MonitorTask(get_db) ==
    [get_db |-> get_db, task |-> "created", pc |-> "start", snapshot |-> <<>>,
     i |-> 0, raised |-> "", interrupted |-> "", added |-> <<>>,
     trades_synced |-> None]

\* ---------------------------------------------------------------- actions
Init ==
    /\ agent_configs \in
         [AgentIds -> {NoRow} \cup
            {AgentConfigRow(p, act) : p \in PortfolioIds, act \in BOOLEAN}]
    /\ portfolios \in [PortfolioIds -> {NoRow}] \cup {[p \in PortfolioIds |-> PortfolioRow(p)]}
    /\ active_agents = <<>>
    /\ running_agents = <<>>
    /\ procs = <<>>
    /\ supervisor \in {"bridge", "service"}
    /\ now = 0
    /\ last = Result("init", 0, TRUE)
    /\ monitor = MonitorTask("async_generator")
    /\ trades = <<>>
    /\ data_files = <<>>
    /\ position_file = Absent
    /\ ledger = NewPortfolio
    /\ config_file = NoConfigFile
    /\ calls = <<>>

Tick ==
    /\ now < MaxTime
    /\ now' = now + 1
    /\ last' = Result("tick", 0, TRUE)
    /\ UNCHANGED <<agent_configs, portfolios, active_agents, running_agents, procs, supervisor>>
    /\ UNCHANGED sync_vars

\* a subprocess ends on its own
ProcessExit(pid) ==
    /\ procs[pid].state = "running"
    /\ procs' = Exit(procs, pid)
    /\ last' = Result("exit", procs[pid].agent, TRUE)
    /\ UNCHANGED <<agent_configs, portfolios, active_agents, running_agents, supervisor, now>>
    /\ UNCHANGED sync_vars

CanSpawn(o) == o.spawned = NoProcess \/ Len(procs) < MaxProcs

BridgeWrites(op, a, o) ==
    /\ supervisor = "bridge"
    /\ active_agents' = o.live
    /\ agent_configs' = o.agent_configs
    /\ procs' = o.procs
    /\ last' = [Result(op, a, o.ok) EXCEPT
                  !.error = o.error, !.tracked = o.tracked, !.spawned = o.spawned,
                  !.signals = o.signals,
                  !.removed = Len(active_agents) - Len(o.live),
                  !.propagated = o.error # "" /\ ~ExceptException(o.error),
                  !.exited = o.tracked /\ Has(active_agents, a)
                             /\ o.procs[Get(active_agents, a).process].state = "exited"]
    /\ UNCHANGED <<portfolios, running_agents, supervisor, now>>
    /\ UNCHANGED sync_vars

ServiceWrites(op, a, o) ==
    /\ supervisor = "service"
    /\ running_agents' = o.live
    /\ agent_configs' = o.agent_configs
    /\ procs' = o.procs
    /\ last' = [Result(op, a, o.ok) EXCEPT
                  !.error = o.error, !.tracked = o.tracked, !.spawned = o.spawned,
                  !.signals = o.signals,
                  !.removed = Len(running_agents) - Len(o.live),
                  !.propagated = o.error # "" /\ ~ExceptException(o.error),
                  !.exited = o.tracked /\ Has(running_agents, a)
                             /\ o.procs[Get(running_agents, a).process].state = "exited"]
    /\ UNCHANGED <<portfolios, active_agents, supervisor, now>>
    /\ UNCHANGED sync_vars

\* the caller hands start_agent the AgentConfig and its Portfolio
ServiceStartAgent(a) ==
    /\ agent_configs[a].exists
    /\ portfolios[agent_configs[a].portfolio_id].exists
    /\ \E spawn_ok, commit_ok \in BOOLEAN :
        LET o == AITraderService_start_agent(a, spawn_ok, commit_ok)
        IN  CanSpawn(o) /\ ServiceWrites("start_agent", a, o)

ServiceStopAgent(a) ==
    \E graceful, died, commit_ok, cleanup_ok \in BOOLEAN :
        ServiceWrites("stop_agent", a,
                      AITraderService_stop_agent(a, graceful, died, commit_ok, cleanup_ok))

StartAgent(a) ==
    \E spawn_ok, commit_ok \in BOOLEAN :
        LET o == AITraderBridge_start_agent(a, spawn_ok, commit_ok)
        IN  CanSpawn(o) /\ BridgeWrites("start_agent", a, o)

StopAgent(a) ==
    \E lookup_raises, graceful, commit_ok \in BOOLEAN :
        BridgeWrites("stop_agent", a,
                     AITraderBridge_stop_agent(a, lookup_raises, graceful, commit_ok))

ApiStartAgent(u, a) ==
    \E spawn_ok, commit_ok \in BOOLEAN :
        LET o == api_start_agent(u, a, spawn_ok, commit_ok)
        IN  CanSpawn(o) /\ BridgeWrites("api_start_agent", a, o)

GetAgentStatus(a) ==
    /\ supervisor = "bridge"
    /\ last' = [Result("get_agent_status", a, TRUE) EXCEPT
                  !.status = AITraderBridge_get_agent_status(a)]
    /\ UNCHANGED <<agent_configs, portfolios, active_agents, running_agents, procs,
                   supervisor, now>>
    /\ UNCHANGED sync_vars

ServiceGetAgentStatus(a) ==
    /\ supervisor = "service"
    /\ LET st == AITraderService_get_agent_status(a)
       IN  /\ running_agents' = st.live
           /\ last' = [Result("get_agent_status", a, TRUE) EXCEPT
                         !.status = [running |-> st.is_running],
                         !.tracked = Has(running_agents, a),
                         !.removed = Len(running_agents) - Len(st.live)]
    /\ UNCHANGED <<agent_configs, portfolios, active_agents, procs, supervisor, now>>
    /\ UNCHANGED sync_vars

\* one iteration of "while True" in monitor_agents: the sweep, then
\* sync_trades_from_ai_trader (it catches what it raises and writes Trade
\* rows only), then the sleep: 300 s, or 60 s after a raise
MonitorAgents ==
    /\ supervisor = "bridge"
    /\ \E F \in SUBSET AgentIds :
        LET s == Sweep(active_agents, 1, active_agents, agent_configs, F)
        IN  /\ active_agents' = s.live
            /\ agent_configs' = s.agent_configs
            /\ last' = [Result("monitor_agents", 0, ~s.raised) EXCEPT
                          !.error = IF s.raised THEN "StorageFailure" ELSE "",
                          !.removed = Len(active_agents) - Len(s.live)]
            /\ UNCHANGED <<portfolios, running_agents, procs, supervisor, now>>
    /\ UNCHANGED sync_vars

Next ==
    \/ Tick
    \/ \E pid \in 1..Len(procs) : ProcessExit(pid)
    \/ \E a \in AgentIds : StartAgent(a)
    \/ \E a \in AgentIds : StopAgent(a)
    \/ \E a \in AgentIds : GetAgentStatus(a)
    \/ \E u \in Users, a \in AgentIds : ApiStartAgent(u, a)
    \/ MonitorAgents
    \/ \E a \in AgentIds : ServiceStartAgent(a)
    \/ \E a \in AgentIds : ServiceStopAgent(a)
    \/ \E a \in AgentIds : ServiceGetAgentStatus(a)

Spec == Init /\ [][Next]_vars

\* ------------------------------------------- the monitor task, await by await
\* The agents of T, started in ascending order, each with its process
RECURSIVE TrackedFrom(_, _)
TrackedFrom(T, live) ==
    IF T = {} THEN live
    ELSE LET a == CHOOSE x \in T : \A y \in T : x <= y
         IN  TrackedFrom(T \ {a}, Append(live, LiveEntry(a, Len(live) + 1)))

\* The deployment after the starts of the agents of T succeeded, with the
\* monitor task created and not yet run
MonitorInit ==
    /\ now = 0
    /\ supervisor = "bridge"
    /\ portfolios = [p \in PortfolioIds |-> PortfolioRow(p)]
    /\ running_agents = <<>>
    /\ last = Result("init", 0, TRUE)
    /\ \E T \in SUBSET AgentIds :
        /\ active_agents = TrackedFrom(T, <<>>)
        /\ procs = [pid \in 1..Cardinality(T) |->
                       Proc(TrackedFrom(T, <<>>)[pid].id, "bridge")]
        /\ agent_configs =
             [a \in AgentIds |->
                IF a \in T
                THEN [AgentConfigRow(CHOOSE p \in PortfolioIds : TRUE, TRUE) EXCEPT
                        !.is_running = TRUE, !.last_started_at = 0]
                ELSE AgentConfigRow(CHOOSE p \in PortfolioIds : TRUE, TRUE)]
    /\ monitor \in {MonitorTask(get_db) : get_db \in {"generator", "async_generator"}}
    /\ data_files \in {<<>>, <<TradeEntry(1, "AAPL", "2024-01-01T00:00:00")>>,
                        <<TradeEntry(1, "MSFT", "2024-01-02T00:00:00"),
                          TradeEntry(1, "AAPL", "2024-01-01T00:00:00")>>}
    /\ trades \in {<<>>, <<TradeRow(1, "AAPL", 1, "executed")>>,
                    <<TradeRow(1, "AAPL", 1, "executed"),
                      TradeRow(1, "AAPL", 1, "executed")>>}
    /\ position_file = Absent
    /\ ledger = NewPortfolio
    /\ config_file = NoConfigFile
    /\ calls = <<>>

\* what a step of the task writes; the rest is left alone
MonitorWrites(m, live, cfgs, rows) ==
    /\ monitor' = m
    /\ active_agents' = live
    /\ agent_configs' = cfgs
    /\ trades' = rows
    /\ UNCHANGED <<portfolios, running_agents, procs, supervisor, now, last,
                   data_files, position_file, ledger, config_file, calls>>

\* the first entry of the snapshot, from i on, whose process.returncode is
\* not None; past the end when there is none
NextDead(snapshot, i) ==
    LET dead == {j \in i..Len(snapshot) : Exited(snapshot[j].process)}
    IN  IF dead = {} THEN Len(snapshot) + 1
        ELSE CHOOSE j \in dead : \A k \in dead : j <= k

\* the for loop of the sweep runs on from entry i to its next await: the
\* db.execute for a dead agent, or, after the loop, the first await of the
\* trade sync: the db.execute for a trade entry, the db.commit without one
SweepFrom(m, i) ==
    IF NextDead(m.snapshot, i) <= Len(m.snapshot)
    THEN [m EXCEPT !.pc = "execute", !.i = NextDead(m.snapshot, i)]
    ELSE IF data_files # <<>>
    THEN [m EXCEPT !.pc = "sync", !.i = 0]
    ELSE [m EXCEPT !.pc = "sync_commit", !.i = 0]

\* "except Exception" of monitor_agents: log, then sleep(60)
Backoff(m, error) == [m EXCEPT !.pc = "sleep60", !.raised = error]

Running(pc) == monitor.task = "running" /\ monitor.pc = pc

\* the task's first step: "async for db in get_db()" raises TypeError on a
\* plain generator; on an async generator it enters monitor_agents
MonitorTaskRun ==
    /\ monitor.task = "created"
    /\ MonitorWrites(IF monitor.get_db = "generator"
                     THEN [monitor EXCEPT !.task = "failed", !.raised = "TypeError"]
                     ELSE [monitor EXCEPT !.task = "running", !.pc = "top"],
                     active_agents, agent_configs, trades)

\* top of "while True": list(self.active_agents.items())
IterationTop ==
    /\ Running("top")
    /\ MonitorWrites(SweepFrom([monitor EXCEPT !.snapshot = active_agents,
                                               !.raised = ""], 1),
                     active_agents, agent_configs, trades)

\* db.execute(select(AgentConfig)) returns: the flag is assigned and the
\* commit awaited, or, the row being gone, the entry is deleted; "del" of a
\* key that is no longer in the map raises KeyError
SweepExecute ==
    /\ Running("execute")
    /\ LET agent_id == monitor.snapshot[monitor.i].id
       IN  IF agent_configs[agent_id].exists
           THEN MonitorWrites([monitor EXCEPT !.pc = "commit"],
                              active_agents, agent_configs, trades)
           ELSE IF Has(active_agents, agent_id)
           THEN MonitorWrites(SweepFrom(monitor, monitor.i + 1),
                              Del(active_agents, agent_id), agent_configs, trades)
           ELSE MonitorWrites(Backoff(monitor, "KeyError"),
                              active_agents, agent_configs, trades)

\* db.commit() of the sweep returns or raises; a commit flushes what the
\* session holds
SweepCommit ==
    /\ Running("commit")
    /\ \E commit_ok \in BOOLEAN :
        LET agent_id == monitor.snapshot[monitor.i].id
        IN  IF commit_ok
            THEN MonitorWrites(IF Has(active_agents, agent_id)
                               THEN SweepFrom([monitor EXCEPT !.added = <<>>],
                                              monitor.i + 1)
                               ELSE Backoff([monitor EXCEPT !.added = <<>>], "KeyError"),
                               Del(active_agents, agent_id),
                               [agent_configs EXCEPT ![agent_id].is_running = FALSE],
                               trades \o monitor.added)
            ELSE MonitorWrites(Backoff(monitor, "StorageFailure"),
                               active_agents, agent_configs, trades)

\* the loops of sync_trades_from_ai_trader: an exception is caught inside
\* it, it returns 0 and monitor_agents goes on to sleep(300)
MonitorSync ==
    /\ Running("sync")
    /\ LET scan == ScanTradeLogs(data_files, 1, trades, <<>>)
       IN  MonitorWrites(IF scan.raised # ""
                         THEN [monitor EXCEPT !.pc = "sleep300", !.raised = scan.raised,
                                              !.added = monitor.added \o scan.added,
                                              !.trades_synced = 0]
                         ELSE [monitor EXCEPT !.pc = "sync_commit",
                                              !.added = monitor.added \o scan.added,
                                              !.trades_synced = Len(scan.added)],
                         active_agents, agent_configs, trades)

\* db.commit() of the trade sync returns, and the counter is returned, or
\* it raises, and 0 is returned; nothing rolls the session back
MonitorSyncCommit ==
    /\ Running("sync_commit")
    /\ \E commit_ok \in BOOLEAN :
        MonitorWrites(IF commit_ok
                      THEN [monitor EXCEPT !.pc = "sleep300", !.added = <<>>,
                                           !.trades_synced =
                                               IF @ = None THEN 0 ELSE @]
                      ELSE [monitor EXCEPT !.pc = "sleep300",
                                           !.raised = "StorageFailure",
                                           !.trades_synced = 0],
                      active_agents, agent_configs,
                      IF commit_ok THEN trades \o monitor.added ELSE trades)

\* asyncio.sleep(300) or asyncio.sleep(60) returns
Wake ==
    /\ monitor.task = "running" /\ monitor.pc \in {"sleep300", "sleep60"}
    /\ MonitorWrites([monitor EXCEPT !.pc = "top"], active_agents, agent_configs, trades)

\* lifespan shutdown: monitoring_task.cancel(). CancelledError is thrown
\* into the task at the await it is suspended at; no handler of
\* monitor_agents or sync_trades_from_ai_trader takes a BaseException.
\* persisted: a commit that was in flight reached storage.
Shutdown ==
    /\ monitor.task \in {"created", "running"}
    /\ \E persisted \in BOOLEAN :
        /\ persisted => monitor.pc \in {"commit", "sync_commit"}
        /\ MonitorWrites(
              [monitor EXCEPT !.task = "cancelled", !.interrupted = monitor.pc],
              active_agents,
              IF persisted /\ monitor.pc = "commit"
              THEN [agent_configs EXCEPT
                      ![monitor.snapshot[monitor.i].id].is_running = FALSE]
              ELSE agent_configs,
              IF persisted THEN trades \o monitor.added ELSE trades)

\* the steps the event loop owes the task
MonitorStep ==
    \/ MonitorTaskRun
    \/ IterationTop
    \/ SweepExecute
    \/ SweepCommit
    \/ MonitorSync
    \/ MonitorSyncCommit
    \/ Wake

MonitorNext ==
    \/ MonitorTaskRun
    \/ IterationTop
    \/ SweepExecute
    \/ SweepCommit
    \/ MonitorSync
    \/ MonitorSyncCommit
    \/ Wake
    \/ Shutdown
    \/ \E pid \in 1..Len(procs) : ProcessExit(pid)

MonitorSpec == MonitorInit /\ [][MonitorNext]_vars /\ WF_vars(MonitorStep)

\* ------------------------------------------------------ the API, by user
\* what a request of user u leaves behind
ApiWrites(op, u, a, o) ==
    /\ active_agents' = o.live
    /\ agent_configs' = o.agent_configs
    /\ procs' = o.procs
    /\ last' = [Result(op, a, o.ok) EXCEPT
                  !.error = o.error, !.tracked = o.tracked, !.signals = o.signals,
                  !.removed = Len(active_agents) - Len(o.live), !.user = u]
    /\ UNCHANGED <<portfolios, running_agents, supervisor, now>>
    /\ UNCHANGED sync_vars

ApiStopAgent(u, a) ==
    \E lookup_raises, graceful, commit_ok \in BOOLEAN :
        ApiWrites("api_stop_agent", u, a,
                  api_stop_agent(u, a, lookup_raises, graceful, commit_ok))

ApiDeleteAgentConfig(u, a) ==
    \E lookup_raises, graceful, stop_commit_ok, commit_ok \in BOOLEAN :
        ApiWrites("api_delete_agent_config", u, a,
                  api_delete_agent_config(u, a, lookup_raises, graceful, stop_commit_ok,
                                          commit_ok))

ApiInit == Init /\ supervisor = "bridge"

ApiNext ==
    \/ \E pid \in 1..Len(procs) : ProcessExit(pid)
    \/ \E u \in Users, a \in AgentIds : ApiStartAgent(u, a)
    \/ \E u \in Users, a \in AgentIds : ApiStopAgent(u, a)
    \/ \E u \in Users, a \in AgentIds : ApiDeleteAgentConfig(u, a)

ApiSpec == ApiInit /\ [][ApiNext]_vars

\* -------------------------------------------- the configuration requests
\* "if existing_agents >= 3" of create_agent_config
MaxActiveAgents == 3

\* an AgentConfig as create_agent_config stores it: is_active and
\* is_running are not passed and take their column default
OwnedAgentConfig(u) ==
    [exists |-> TRUE, user_id |-> u, is_active |-> FALSE, is_running |-> FALSE]

\* query(AgentConfig).filter(user_id == current_user.id, is_active == True)
ActiveAgentsOf(cfgs, u) ==
    {a \in 1..Len(cfgs) : cfgs[a].exists /\ cfgs[a].user_id = u /\ cfgs[a].is_active}

\* POST / of the user-keyed router: 400 at the limit, else the row is added
\* under the next id and committed
create_agent_config(cfgs, u, commit_ok) ==
    IF Cardinality(ActiveAgentsOf(cfgs, u)) >= MaxActiveAgents
    THEN [ok |-> FALSE, error |-> "BadRequest", agent |-> 0, agent_configs |-> cfgs]
    ELSE IF ~commit_ok
    THEN [ok |-> FALSE, error |-> "StorageFailure", agent |-> 0, agent_configs |-> cfgs]
    ELSE [ok |-> TRUE, error |-> "", agent |-> Len(cfgs) + 1,
          agent_configs |-> Append(cfgs, OwnedAgentConfig(u))]

\* agent_update.dict(exclude_unset=True), for the field is_active: empty
\* when the field was not sent
UpdateData == {[field \in {} |-> TRUE]} \cup {[field \in {"is_active"} |-> b] : b \in BOOLEAN}

\* PUT /{agent_id} of the user-keyed router: 404 for a row that is not the
\* user's, 400 while is_running, else every field sent is set and committed
update_agent_config(cfgs, u, a, update_data, commit_ok) ==
    IF ~(a \in 1..Len(cfgs) /\ cfgs[a].exists /\ cfgs[a].user_id = u)
    THEN [ok |-> FALSE, error |-> "NotFound", agent |-> a, agent_configs |-> cfgs]
    ELSE IF cfgs[a].is_running
    THEN [ok |-> FALSE, error |-> "BadRequest", agent |-> a, agent_configs |-> cfgs]
    ELSE IF ~commit_ok
    THEN [ok |-> FALSE, error |-> "StorageFailure", agent |-> a, agent_configs |-> cfgs]
    ELSE [ok |-> TRUE, error |-> "", agent |-> a,
          agent_configs |-> IF "is_active" \in DOMAIN update_data
                            THEN [cfgs EXCEPT ![a].is_active = update_data["is_active"]]
                            ELSE cfgs]

\* what a configuration request of user u leaves behind
RequestWrites(op, u, r) ==
    /\ agent_configs' = r.agent_configs
    /\ last' = [Result(op, r.agent, r.ok) EXCEPT !.error = r.error, !.user = u]
    /\ UNCHANGED <<portfolios, active_agents, running_agents, procs, supervisor, now>>
    /\ UNCHANGED sync_vars

ApiCreateAgentConfig(u) ==
    /\ Len(agent_configs) < MaxConfigs
    /\ \E commit_ok \in BOOLEAN :
        RequestWrites("create_agent_config", u,
                      create_agent_config(agent_configs, u, commit_ok))

ApiUpdateAgentConfig(u, a) ==
    \E update_data \in UpdateData, commit_ok \in BOOLEAN :
        RequestWrites("update_agent_config", u,
                      update_agent_config(agent_configs, u, a, update_data, commit_ok))

\* storage without an AgentConfig; the table is the sequence of its rows,
\* the id of a row its index
RequestInit ==
    /\ agent_configs = <<>>
    /\ portfolios = [p \in PortfolioIds |-> PortfolioRow(p)]
    /\ active_agents = <<>>
    /\ running_agents = <<>>
    /\ procs = <<>>
    /\ supervisor = "service"
    /\ now = 0
    /\ last = Result("init", 0, TRUE)
    /\ monitor = MonitorTask("async_generator")
    /\ trades = <<>>
    /\ data_files = <<>>
    /\ position_file = Absent
    /\ ledger = NewPortfolio
    /\ config_file = NoConfigFile
    /\ calls = <<>>

RequestNext ==
    \/ \E u \in Users : ApiCreateAgentConfig(u)
    \/ \E u \in Users, a \in 1..MaxConfigs : ApiUpdateAgentConfig(u, a)

RequestSpec == RequestInit /\ [][RequestNext]_vars

\* ------------------------------------------- calls in flight, await by await
\* A call of start_agent or stop_agent of the bridge, suspended at the await
\* pc names; process: the handle it holds
Call(op, a, pc) ==
    [op |-> op, agent |-> a, pc |-> pc, process |-> NoProcess, ok |-> FALSE, error |-> ""]

Return(call, ok, error) == [call EXCEPT !.pc = "returned", !.ok = ok, !.error = error]

Suspended(t, op, pc) == calls[t].op = op /\ calls[t].pc = pc

\* what a step of a call writes; the rest is left alone
CallWrites(cs, live, cfgs, ps) ==
    /\ calls' = cs
    /\ active_agents' = live
    /\ agent_configs' = cfgs
    /\ procs' = ps
    /\ UNCHANGED <<portfolios, running_agents, supervisor, now, last, monitor, trades,
                   data_files, position_file, ledger, config_file>>

\* start_agent is called and runs to the db.execute of its select
CallStartAgent(a) ==
    /\ Len(calls) < MaxCalls
    /\ CallWrites(Append(calls, Call("start_agent", a, "select")),
                  active_agents, agent_configs, procs)

\* the select returns: no row, or the id is tracked, and the call returns;
\* else _create_agent_config runs to the db.execute of its select
StartSelect(t) ==
    /\ Suspended(t, "start_agent", "select")
    /\ LET a == calls[t].agent
       IN  CallWrites([calls EXCEPT ![t] =
                          IF ~agent_configs[a].exists THEN Return(@, FALSE, "NotFound")
                          ELSE IF AlreadyRunning(a) THEN Return(@, TRUE, "")
                          ELSE [@ EXCEPT !.pc = "create_config"]],
                      active_agents, agent_configs, procs)

\* the Portfolio select returns: ValueError without a row; else the file is
\* written and _start_trading_process runs to create_subprocess_exec
StartCreateConfig(t) ==
    /\ Suspended(t, "start_agent", "create_config")
    /\ CallWrites([calls EXCEPT ![t] =
                      IF PortfolioNotFound(agent_configs[calls[t].agent])
                      THEN Return(@, FALSE, "NotFound")
                      ELSE [@ EXCEPT !.pc = "spawn"]],
                  active_agents, agent_configs, procs)

\* create_subprocess_exec returns the handle or raises; with a handle the
\* entry is stored, the flag assigned and the commit awaited
StartSpawn(t) ==
    /\ Suspended(t, "start_agent", "spawn")
    /\ \E spawn_ok \in BOOLEAN :
        LET a == calls[t].agent
            started == StartTradingProcess(procs, a, spawn_ok)
        IN  /\ spawn_ok => Len(procs) < MaxProcs + MaxCalls
            /\ CallWrites([calls EXCEPT ![t] =
                              IF started.process = NoProcess
                              THEN Return(@, FALSE, "SpawnFailure")
                              ELSE [@ EXCEPT !.pc = "commit",
                                             !.process = started.process]],
                          IF started.process = NoProcess THEN active_agents
                          ELSE Put(active_agents, LiveEntry(a, started.process)),
                          agent_configs, started.procs)

\* the commit of start_agent returns or raises
StartCommit(t) ==
    /\ Suspended(t, "start_agent", "commit")
    /\ \E commit_ok \in BOOLEAN :
        LET a == calls[t].agent
        IN  CallWrites([calls EXCEPT ![t] =
                          Return(@, commit_ok, IF commit_ok THEN "" ELSE "StorageFailure")],
                      active_agents,
                      Commit([agent_configs EXCEPT ![a].is_running = TRUE,
                                                   ![a].last_started_at = now],
                             agent_configs, commit_ok),
                      procs)

\* stop_agent is called: it returns at once for an untracked id; else it
\* calls terminate() and runs to wait_for(process.wait(), 10)
CallStopAgent(a) ==
    /\ Len(calls) < MaxCalls
    /\ \E lookup_raises \in BOOLEAN :
        CallWrites(Append(calls,
                          IF NotRunning(a)
                          THEN Return(Call("stop_agent", a, ""), TRUE, "")
                          ELSE IF Exited(Get(active_agents, a).process) /\ lookup_raises
                          THEN Return(Call("stop_agent", a, ""), FALSE,
                                      "ProcessLookupError")
                          ELSE [Call("stop_agent", a, "wait") EXCEPT
                                  !.process = Get(active_agents, a).process]),
                   active_agents, agent_configs, procs)

\* "del self.active_agents[agent_config_id]" of stop_agent, then the
\* db.execute of its select; KeyError when the key is no longer in the map
DelThenSelect(call) ==
    IF Has(active_agents, call.agent)
    THEN [call EXCEPT !.pc = "select"]
    ELSE Return(call, FALSE, "KeyError")

\* the wait ends: the process has exited; or it times out, kill() is called
\* and process.wait() awaited
StopWait(t) ==
    /\ Suspended(t, "stop_agent", "wait")
    /\ \E graceful \in BOOLEAN :
        LET pid == calls[t].process
        IN  IF Exited(pid) \/ graceful
            THEN CallWrites([calls EXCEPT ![t] = DelThenSelect(@)],
                            Del(active_agents, calls[t].agent), agent_configs,
                            Exit(procs, pid))
            ELSE CallWrites([calls EXCEPT ![t].pc = "wait_killed"],
                            active_agents, agent_configs, procs)

\* process.wait() after kill() returns
StopWaitKilled(t) ==
    /\ Suspended(t, "stop_agent", "wait_killed")
    /\ CallWrites([calls EXCEPT ![t] = DelThenSelect(@)],
                  Del(active_agents, calls[t].agent), agent_configs,
                  Exit(procs, calls[t].process))

\* the select of stop_agent returns: with a row the flag is assigned and
\* the commit awaited; without one the call returns
StopSelect(t) ==
    /\ Suspended(t, "stop_agent", "select")
    /\ CallWrites([calls EXCEPT ![t] =
                      IF agent_configs[calls[t].agent].exists
                      THEN [@ EXCEPT !.pc = "commit"]
                      ELSE Return(@, TRUE, "")],
                  active_agents, agent_configs, procs)

\* the commit of stop_agent returns or raises
StopCommit(t) ==
    /\ Suspended(t, "stop_agent", "commit")
    /\ \E commit_ok \in BOOLEAN :
        LET a == calls[t].agent
        IN  CallWrites([calls EXCEPT ![t] =
                          Return(@, commit_ok, IF commit_ok THEN "" ELSE "StorageFailure")],
                      active_agents,
                      Commit([agent_configs EXCEPT ![a].is_running = FALSE,
                                                   ![a].last_stopped_at = now],
                             agent_configs, commit_ok),
                      procs)

\* the deployment of MonitorInit with no trade logs
RaceInit ==
    /\ MonitorInit
    /\ monitor.get_db = "async_generator"
    /\ data_files = <<>>
    /\ trades = <<>>

RaceNext ==
    \/ \E a \in AgentIds : CallStartAgent(a)
    \/ \E t \in 1..Len(calls) : StartSelect(t)
    \/ \E t \in 1..Len(calls) : StartCreateConfig(t)
    \/ \E t \in 1..Len(calls) : StartSpawn(t)
    \/ \E t \in 1..Len(calls) : StartCommit(t)
    \/ \E a \in AgentIds : CallStopAgent(a)
    \/ \E t \in 1..Len(calls) : StopWait(t)
    \/ \E t \in 1..Len(calls) : StopWaitKilled(t)
    \/ \E t \in 1..Len(calls) : StopSelect(t)
    \/ \E t \in 1..Len(calls) : StopCommit(t)
    \/ \E pid \in 1..Len(procs) : ProcessExit(pid)
    \/ MonitorTaskRun
    \/ IterationTop
    \/ SweepExecute
    \/ SweepCommit
    \/ MonitorSyncCommit
    \/ Wake

RaceSpec == RaceInit /\ [][RaceNext]_vars

\* ------------------------------------------------------- the reconcilers
\* what a reconciliation leaves behind in last
Reconciled(op, status, error, trades_synced) ==
    [Result(op, 0, status # "error") EXCEPT
       !.error = error,
       !.status = [status |-> status, trades_synced |-> trades_synced]]

SyncWrites(rows, files, positions, row, result) ==
    /\ trades' = rows
    /\ data_files' = files
    /\ position_file' = positions
    /\ ledger' = row
    /\ last' = result
    /\ UNCHANGED <<agent_configs, portfolios, active_agents, running_agents, procs,
                   supervisor, now, monitor, config_file, calls>>

\* sync_portfolio_data(portfolio, db)
SyncPortfolioData ==
    \E commit_ok \in BOOLEAN :
        LET r == AITraderService_sync_portfolio_data(commit_ok)
        IN  SyncWrites(trades, data_files, position_file, r.ledger,
                       Reconciled("sync_portfolio_data", r.status,
                                  IF r.status = "error" THEN "StorageFailure" ELSE "",
                                  r.trades_synced))

\* sync_trades_from_ai_trader(db)
SyncTrades ==
    \E commit_ok \in BOOLEAN :
        LET r == AITraderBridge_sync_trades_from_ai_trader(commit_ok)
        IN  SyncWrites(r.trades, data_files, position_file, ledger,
                       Reconciled("sync_trades", "returned", r.error, r.trades_synced))

\* the trading process appends a line to position.jsonl
AppendPosition(line) ==
    /\ Len(position_file.lines) < MaxLines
    /\ SyncWrites(trades, data_files, PositionFile(Append(position_file.lines, line)),
                  ledger, Result("append_position", 0, TRUE))

\* the trading process appends an entry to its trade log
AppendTrade(entry) ==
    /\ Len(data_files) < MaxEntries
    /\ SyncWrites(trades, Append(data_files, entry), position_file, ledger,
                  Result("append_trade", 0, TRUE))

IdleLifecycle ==
    /\ now = 0
    /\ supervisor = "service"
    /\ agent_configs = [a \in AgentIds |-> NoRow]
    /\ portfolios = [p \in PortfolioIds |-> PortfolioRow(p)]
    /\ active_agents = <<>>
    /\ running_agents = <<>>
    /\ procs = <<>>
    /\ last = Result("init", 0, TRUE)
    /\ monitor = MonitorTask("async_generator")
    /\ calls = <<>>

\* Trade rows that are in storage before any reconciliation
StoredTrades ==
    {TradeRow(portfolio_id, symbol, FromIsoFormat(t), status) :
        portfolio_id \in TradePortfolios, symbol \in Symbols, t \in IsoTimes,
        status \in {"pending", "executed"}}

PortfolioSyncInit ==
    /\ IdleLifecycle
    /\ position_file = Absent
    /\ ledger = NewPortfolio
    /\ data_files = <<>>
    /\ trades \in {<<>>, <<TradeRow(1, "AAPL", 1, "executed")>>}
    /\ config_file = NoConfigFile

PortfolioSyncNext ==
    \/ \E line \in Lines : AppendPosition(line)
    \/ SyncPortfolioData

PortfolioSyncSpec == PortfolioSyncInit /\ [][PortfolioSyncNext]_vars

TradeSyncInit ==
    /\ IdleLifecycle
    /\ position_file \in
         {Absent, PositionFile(<<Snapshot([symbol \in HoldingSymbols |-> 1])>>)}
    /\ ledger = NewPortfolio
    /\ data_files = <<>>
    /\ trades \in UNION {[1..n -> StoredTrades] : n \in 0..MaxRows}
    /\ config_file = NoConfigFile

TradeSyncNext ==
    \/ \E portfolio_id \in TradePortfolios, symbol \in Symbols, t \in IsoTimes :
          AppendTrade(TradeEntry(portfolio_id, symbol, t))
    \/ SyncTrades
    \/ SyncPortfolioData

TradeSyncSpec == TradeSyncInit /\ [][TradeSyncNext]_vars

\* ------------------------------------------------------ the materializers
\* the stored values of the trading parameters, 0 among them
StoredPositionSizes == {0, 25}

StoredStopLossPcts == {0, 10}

StoredTakeProfitPcts == {0, 30}

StoredTradesPerDay == {0, 5}

StoredCash == {0, 5000}

ConfigWrites(by, config) ==
    /\ config_file' = [config_file EXCEPT !.written_by = by, !.config = config]
    /\ last' = Result(by, 0, TRUE)
    /\ UNCHANGED <<agent_configs, portfolios, active_agents, running_agents, procs,
                   supervisor, now, monitor, trades, data_files, position_file, ledger,
                   calls>>

\* _create_agent_config(agent_config, db) of the bridge
CreateAgentConfig ==
    ConfigWrites("_create_agent_config",
                 AITraderBridge_create_agent_config(config_file.agent_config,
                                                    config_file.portfolio))

\* _create_ai_trader_config(agent_config, portfolio) of the service
CreateAiTraderConfig ==
    ConfigWrites("_create_ai_trader_config",
                 AITraderService_create_ai_trader_config(config_file.agent_config,
                                                         config_file.portfolio))

ConfigInit ==
    /\ IdleLifecycle
    /\ position_file = Absent
    /\ ledger = NewPortfolio
    /\ data_files = <<>>
    /\ trades = <<>>
    /\ \E position \in StoredPositionSizes, stop_loss \in StoredStopLossPcts,
          take_profit \in StoredTakeProfitPcts, trades_per_day \in StoredTradesPerDay,
          agent_market \in Markets, current_cash \in StoredCash, market \in Markets :
        config_file =
            [NoConfigFile EXCEPT
               !.agent_config = TradingParameters(position, stop_loss, take_profit,
                                                  trades_per_day, agent_market),
               !.portfolio = PortfolioFunds(current_cash, market)]

ConfigNext ==
    \/ CreateAgentConfig
    \/ CreateAiTraderConfig

ConfigSpec == ConfigInit /\ [][ConfigNext]_vars

\* ------------------------------------------------------------------ claims
Bridge == supervisor = "bridge"

Service == supervisor = "service"

\* the live-agent map of the supervisor this behaviour drives
LiveMap == IF Bridge THEN active_agents ELSE running_agents

IsRunning(a) == agent_configs[a].exists /\ agent_configs[a].is_running

\* the Portfolio row that AgentConfig a links to is not in storage
PortfolioGone(a) == ~portfolios[agent_configs[a].portfolio_id].exists

\* the tracked process of a has exited
Dead(a) == Has(active_agents, a) /\ Exited(Get(active_agents, a).process)

\* C1: in every reachable state of the bridge, an AgentConfig whose persisted
\* is_running flag is true has an entry in active_agents.
C1_RunningImpliesLive ==
    Bridge => \A a \in AgentIds : IsRunning(a) => Has(active_agents, a)

\* C2: a start that succeeded, followed immediately by a second start of the
\* same id, returns success and spawns nothing: the processes and the tracked
\* handle of that id are what they were. Both supervisors. (Stated for the
\* second starts that did not fail to launch the executable: a launch that
\* fails is an attempt at a second spawn, but not the spawn claimed.)
C2_StartTwiceSpawnsOnce ==
    [][(/\ last.op = "start_agent" /\ last.ok
        /\ last'.op = "start_agent" /\ last'.agent = last.agent
        /\ last'.error # "SpawnFailure")
       => (/\ last'.ok
           /\ last'.spawned = NoProcess
           /\ procs' = procs
           /\ Get(LiveMap, last.agent).process = Get(LiveMap', last.agent).process)]_vars

C4_RecordsOnlyAfterSpawn ==
    [][(Bridge /\ last'.op = "start_agent")
       => LET a == last'.agent IN
          /\ last'.error = "SpawnFailure"
               => ~last'.ok /\ ~Has(active_agents', a)
          /\ last'.spawned = NoProcess
               => active_agents' = active_agents /\ agent_configs' = agent_configs
          /\ last'.spawned # NoProcess
               => /\ Get(active_agents', a).process = last'.spawned
                  /\ procs'[last'.spawned].state = "running"
                  /\ last'.ok => /\ agent_configs'[a].is_running
                                 /\ agent_configs'[a].last_started_at = now]_vars

C4_Witness ==
    /\ Bridge /\ last.op = "start_agent" /\ last.error = "SpawnFailure"
    /\ \E b \in AgentIds : IsRunning(b)

\* C5: start_agent for an AgentConfig whose linked Portfolio does not exist
\* returns failure, spawns nothing, adds no live entry and changes no row.
C5_MissingPortfolioFails ==
    [][(/\ Bridge /\ last'.op = "start_agent"
        /\ agent_configs[last'.agent].exists
        /\ PortfolioGone(last'.agent))
       => (/\ ~last'.ok
           /\ last'.error = "NotFound"
           /\ last'.spawned = NoProcess
           /\ procs' = procs
           /\ active_agents' = active_agents
           /\ agent_configs' = agent_configs)]_vars

C5_Witness ==
    /\ Bridge /\ last.op = "start_agent" /\ ~last.ok
    /\ agent_configs[last.agent].exists
    /\ PortfolioGone(last.agent)

\* C6: a bridge-backed start request for an AgentConfig with is_active =
\* false fails, and no process is spawned for it.
C6_InactiveNeverSpawned ==
    (/\ Bridge /\ last.op = "api_start_agent"
     /\ agent_configs[last.agent].exists
     /\ ~agent_configs[last.agent].is_active)
    => (~last.ok /\ last.spawned = NoProcess)

\* C7: stop of a tracked agent calls terminate first and kill only after
\* it, and when it returns success the subprocess has exited. Both
\* supervisors.
C7_StoppedMeansExited ==
    (last.op = "stop_agent" /\ last.tracked)
    => (/\ last.signals \in {<<>>, <<"terminate">>, <<"terminate", "kill">>}
        /\ last.ok => last.exited)

\* C8: the bridge's stop_agent on a tracked agent removes the live entry,
\* clears the persisted is_running and returns success, also when the
\* subprocess had exited on its own before the call. (Stated for the calls
\* whose commit did not raise: the storage failure is not the case claimed.)
C8_StopTrackedAlwaysSucceeds ==
    (/\ Bridge /\ last.op = "stop_agent" /\ last.tracked
     /\ last.error # "StorageFailure")
    => (/\ last.ok
        /\ ~Has(active_agents, last.agent)
        /\ ~IsRunning(last.agent))

\* C9: once start_agent has succeeded for an id, get_agent_status reports
\* running = true with the pid and the start timestamp of the tracked
\* process; for an id with no live entry it reports running = false.
C9_StatusReportsTracked ==
    /\ (Bridge /\ last.op \in {"start_agent", "api_start_agent"} /\ last.ok)
       => LET st == AITraderBridge_get_agent_status(last.agent) IN
          /\ st.running
          /\ procs[st.pid].agent = last.agent
          /\ procs[st.pid].owner = "bridge"
          /\ last.spawned # NoProcess => st.pid = last.spawned
    /\ (Bridge /\ last.op = "get_agent_status")
       => /\ last.status.running <=> Has(active_agents, last.agent)
          /\ last.status.running
               => /\ last.status.pid = Get(active_agents, last.agent).process
                  /\ last.status.started_at = Get(active_agents, last.agent).started_at

C9_Witness ==
    /\ Bridge /\ last.op = "get_agent_status" /\ last.status.running
    /\ IsRunning(last.agent)
    /\ last.status.started_at < now

C11_ErrorsBackOffAndRetry ==
    /\ [][(monitor'.raised # "" /\ monitor.raised = "")
            => (monitor'.task = "running" /\ monitor'.pc = "sleep60")]_vars
    /\ []<>(monitor.task = "cancelled" \/ Running("top"))

\* C12, as claimed: CancelledError does not reach the task at an await of
\* the liveness sweep, and a cancelled task leaves no dead agent with its
\* flag cleared and its entry still tracked.
C12_CancelOnlyAtBoundary ==
    monitor.task = "cancelled"
    => (/\ monitor.interrupted \notin {"execute", "commit"}
        /\ \A a \in AgentIds : Dead(a) => IsRunning(a))

\* the position file holds a snapshot line
HasSnapshotLine ==
    \E i \in 1..Len(position_file.lines) : position_file.lines[i].kind = "snapshot"

\* the positions of the last snapshot line of the position file
LastSnapshot ==
    position_file.lines[
        CHOOSE i \in 1..Len(position_file.lines) :
            /\ position_file.lines[i].kind = "snapshot"
            /\ \A j \in (i + 1)..Len(position_file.lines) :
                    position_file.lines[j].kind # "snapshot"].positions

\* C13: sync_portfolio_data on a portfolio whose position file is absent,
\* or present without a snapshot line, returns no_data and leaves the
\* Portfolio row and the Trade rows as they were.
C13_NoSnapshotNoChange ==
    [][(last'.op = "sync_portfolio_data" /\ ~HasSnapshotLine)
       => (/\ last'.status.status = "no_data"
           /\ last'.ok
           /\ ledger' = ledger
           /\ trades' = trades)]_vars

C13_Witness ==
    /\ last.op = "sync_portfolio_data" /\ last.status.status = "no_data"
    /\ position_file.exists /\ position_file.lines # <<>> /\ ~HasSnapshotLine
    /\ trades # <<>>

\* the entries of the trade logs that have a Trade row in storage by
\* symbol and execution timestamp
AlreadyStored(rows) ==
    {i \in 1..Len(data_files) :
        \E k \in 1..Len(rows) :
            /\ rows[k].symbol = data_files[i].symbol
            /\ rows[k].executed_at = FromIsoFormat(data_files[i].timestamp)}

\* C14, as claimed: a reconciliation of trade logs with N entries, M of them
\* in storage by symbol and execution timestamp, inserts N - M Trade rows,
\* and the same reconciliation repeated at once inserts none.
C14_InsertsNewEntriesOnce ==
    [][last'.op = "sync_trades"
       => (/\ Len(trades') - Len(trades)
                = Len(data_files) - Cardinality(AlreadyStored(trades))
           /\ last.op = "sync_trades" => trades' = trades)]_vars

C16_TradeRowsOnlyGrow ==
    [][last'.op \in {"sync_trades", "sync_portfolio_data"}
       => (/\ Len(trades') >= Len(trades)
           /\ SubSeq(trades', 1, Len(trades)) = trades)]_vars

C16_Witness ==
    /\ last.op = "sync_trades" /\ last.error = ""
    /\ trades # <<>> /\ data_files # <<>>

\* C17, as claimed: after a sync_portfolio_data that returned success,
\* total_value is the CASH of the holdings (0 without a CASH key) plus
\* quantity times price of every other symbol, whatever its sign.
C17_TotalValueIsCashPlusPriced ==
    [][(last'.op = "sync_portfolio_data" /\ last'.status.status = "success")
       => ledger'.total_value
            = GetCash(ledger'.holdings)
              + (IF "AAPL" \in DOMAIN ledger'.holdings
                 THEN ledger'.holdings["AAPL"] * Price ELSE 0)]_vars

\* C18, as claimed: a sync_portfolio_data that returned success has stored
\* the positions of the last snapshot line of the file as holdings and
\* their CASH as current_cash.
C18_HoldingsFromLastSnapshot ==
    [][(last'.op = "sync_portfolio_data" /\ last'.status.status = "success")
       => (/\ ledger'.holdings = LastSnapshot
           /\ ledger'.current_cash = GetCash(LastSnapshot))]_vars

Carries(config, key, value) == key \in DOMAIN config /\ config[key] = value

\* C21, as claimed: the document a materializer writes carries the position
\* size cap, the stop-loss and take-profit percentages and the trades per day
\* of the AgentConfig as stored, 0 included, the Portfolio's current cash as
\* initial capital and the Portfolio's market. Both materializers.
C21_ConfigCarriesStoredValues ==
    config_file.written_by # ""
    => (/\ Carries(config_file.config, "max_position_size",
                   config_file.agent_config.max_position_size)
        /\ Carries(config_file.config, "stop_loss_pct",
                   config_file.agent_config.stop_loss_pct)
        /\ Carries(config_file.config, "take_profit_pct",
                   config_file.agent_config.take_profit_pct)
        /\ Carries(config_file.config, "max_daily_requests",
                   config_file.agent_config.max_trades_per_day)
        /\ Carries(config_file.config, "initial_cash", config_file.portfolio.current_cash)
        /\ Carries(config_file.config, "market", config_file.portfolio.market))

\* sync_trades_from_ai_trader returns to monitor_agents in this step
SyncReturns == monitor.pc \in {"sync", "sync_commit"} /\ monitor'.pc = "sleep300"

Alive(a) == {pid \in 1..Len(procs) : procs[pid].agent = a /\ ~Exited(pid)}

\* C23, as claimed: however concurrent start_agent calls for one id
\* interleave at their awaits, the id has at most one process that has not
\* exited, and every process that has not exited is the one the live-agent
\* map holds for its id.
C23_ConcurrentStartsSpawnOnce ==
    \A a \in AgentIds :
        /\ Cardinality(Alive(a)) <= 1
        /\ \A pid \in Alive(a) :
              Has(active_agents, a) /\ Get(active_agents, a).process = pid

\* C24, as claimed: however stop_agent interleaves with the monitor's sweep
\* or with a second stop_agent of the same tracked id, no removal of an entry
\* already removed is attempted: every stop returns success unless its
\* commit or its terminate() raised, the monitor does not go to its backoff
\* on a KeyError, and the id of a stop that has returned success is not
\* tracked unless a start was called for it.
C24_ConcurrentStopsSucceed ==
    /\ \A t \in 1..Len(calls) :
          (/\ calls[t].op = "stop_agent" /\ calls[t].pc = "returned"
           /\ calls[t].error \notin {"StorageFailure", "ProcessLookupError"})
          => /\ calls[t].ok
             /\ (\A u \in 1..Len(calls) :
                    ~(calls[u].op = "start_agent" /\ calls[u].agent = calls[t].agent))
                => ~Has(active_agents, calls[t].agent)
    /\ monitor.raised # "KeyError"

\* C25, as claimed: when the bridge's start_agent returns failure, the id has
\* no live entry and no process the call spawned is left running, also when
\* the spawn succeeded and the commit of is_running = true raised.
C25_FailedStartLeavesNothing ==
    (Bridge /\ last.op = "start_agent" /\ ~last.ok)
    => (/\ ~Has(active_agents, last.agent)
        /\ last.spawned # NoProcess => Exited(last.spawned))

\* C26, as claimed: when a start request, of the API handler or of the
\* bridge, reports success for an id, the id has a tracked process that has
\* not exited: an entry whose process has exited and that the monitor has not
\* swept yet is not reported as started or as already running.
C26_StartedMeansAlive ==
    (Bridge /\ last.op \in {"start_agent", "api_start_agent"} /\ last.ok)
    => (/\ Has(active_agents, last.agent)
        /\ ~Exited(Get(active_agents, last.agent).process))

\* C27, as claimed: when stop_agent returns success for an id whose
\* AgentConfig exists, the persisted is_running of that AgentConfig is false,
\* also when the id was not in the live-agent map. Both supervisors.
C27_StoppedMeansFlagCleared ==
    (last.op = "stop_agent" /\ last.ok /\ agent_configs[last.agent].exists)
    => ~agent_configs[last.agent].is_running

\* C28, as claimed: a stop request or a delete request made for agent A by a
\* user who does not own A sends no signal to A's process, keeps A's live
\* entry and leaves the persisted rows as they were.
C28_OnlyOwnerStops ==
    [][(/\ last'.op \in {"api_stop_agent", "api_delete_agent_config"}
        /\ ~OwnedAgent(last'.user, last'.agent))
       => (/\ last'.signals = <<>>
           /\ procs' = procs
           /\ active_agents' = active_agents
           /\ agent_configs' = agent_configs)]_vars

\* the Trade rows with the symbol and the execution time of entry, of its
\* own portfolio or of another
RowsOf(rows, entry, own) ==
    {k \in 1..Len(rows) :
        /\ rows[k].symbol = entry.symbol
        /\ rows[k].executed_at = FromIsoFormat(entry.timestamp)
        /\ (rows[k].portfolio_id = entry.portfolio_id) = own}

\* C29, as claimed: a trade entry that has no Trade row of its own portfolio
\* and whose symbol and execution time are those of a stored Trade of another
\* portfolio is not skipped: after a reconciliation that raised nothing a
\* Trade row of its portfolio is in storage.
C29_OtherPortfolioDoesNotHide ==
    [][(last'.op = "sync_trades" /\ last'.error = "")
       => \A i \in 1..Len(data_files) :
            (/\ RowsOf(trades, data_files[i], TRUE) = {}
             /\ RowsOf(trades, data_files[i], FALSE) # {})
            => RowsOf(trades', data_files[i], TRUE) # {}]_vars

\* C30, as claimed: after any sequence of create_agent_config and
\* update_agent_config requests no user has more than 3 AgentConfigs with
\* is_active = true.
C30_AtMostThreeActive ==
    \A u \in Users : Cardinality(ActiveAgentsOf(agent_configs, u)) <= MaxActiveAgents
====
